---- MODULE Spec2Model ----
(***************************************************************************)
(* Model of the credential-authentication service                          *)
(* (internal/services/auth/auth.go, internal/storage/storage.go).          *)
(*                                                                         *)
(* Auth.RegisterNewUser and Auth.Login are modelled as sequences of steps, *)
(* one step per blocking external call (bcrypt, the user storage, the app  *)
(* provider, the token constructor), so that several calls can interleave  *)
(* and a caller's context can be cancelled between two steps.              *)
(*                                                                         *)
(* Errors are modelled as wrap chains: a sequence of strings whose head is *)
(* the outermost message and whose suffixes are what errors.Unwrap yields. *)
(***************************************************************************)
EXTENDS Integers, Sequences, FiniteSets, TLC

\* ------------------------------------------------------------------ bounds
MaxCalls == 3      \* number of RegisterNewUser / Login invocations
MaxTTL   == 2      \* tokenTTL is drawn from 1..MaxTTL at construction
MaxInFlight == 2   \* calls running at the same time
MaxCancels  == 1   \* calls whose context the caller cancels
MaxFaults   == 1   \* calls that meet a failing collaborator

Calls     == 1..MaxCalls
Emails    == {"a@x.com", "nouser@x.com"}
Passwords == {"pw123456", "wrongpw"}
AppIDs    == {1, 2}
KnownApps == {1}

\* ------------------------------------------------------------------ errors
Nil == << >>

ErrInvalidCredentials == <<"invalid credentials">>
ErrUserExists   == <<"user already exists">>
ErrUserNotFound == <<"user not found">>
ErrAppNotFound  == <<"app not found">>

\* context.Canceled, as returned by a collaborator that was handed a
\* cancelled context.
ErrCanceled == <<"context canceled">>
\* A storage failure other than the sentinels, itself a wrapped error.
ErrDB == <<"storage", "database is locked">>
\* bcrypt.GenerateFromPassword's failure.
ErrHashing == <<"bcrypt: hashing failed">>
\* bcrypt.ErrMismatchedHashAndPassword.
ErrMismatch == <<"crypto/bcrypt: hashedPassword is not the hash of the given password">>
\* The token constructor's signing failure.
ErrSigning == <<"jwt: signing failed">>

opRegister == "Auth.RegisterNewUser"
opLogin    == "Auth.Login"

\* fmt.Errorf("%s: %w", op, err)
Wrap(op, err) == <<op>> \o err

\* ------------------------------------------------------------------ values
NoHash  == [salt |-> 0, digest |-> <<0, "">>]
NoUser  == [ID |-> 0, Email |-> "", PassHash |-> NoHash]
NoApp   == [ID |-> 0, Secret |-> ""]
\* The empty string returned in place of a token.
EmptyToken == [uid |-> 0, app_id |-> 0, iat |-> 0, exp |-> 0]

\* bcrypt's digest of a password under a salt (injective in both).
Digest(salt, pass) == <<salt, pass>>

\* bcrypt.GenerateFromPassword with the salt it drew (a fresh random value:
\* no two calls draw the same one); fail = the primitive failed.
GenerateFromPassword(pass, salt, fail) ==
    IF fail THEN [hash |-> NoHash, err |-> ErrHashing]
    ELSE [hash |-> [salt |-> salt, digest |-> Digest(salt, pass)], err |-> Nil]

\* bcrypt.CompareHashAndPassword: re-derives the digest under the stored
\* salt.
CompareHashAndPassword(hash, pass) ==
    IF hash.digest = Digest(hash.salt, pass) THEN Nil ELSE ErrMismatch

VARIABLES
    users,      \* the user storage: a set of User records
    apps,       \* the app provider: the set of known App records
    tokenTTL,   \* Auth.tokenTTL
    ttlGiven,   \* the tokenTTL argument New was called with
    now,        \* the clock read by jwt.NewToken
    calls,      \* calls[c]: the invocation c of RegisterNewUser or Login
    writes      \* history: which call's SaveUser created which user ID

vars == <<users, apps, tokenTTL, ttlGiven, now, calls, writes>>

\* ------------------------------------------------------------ collaborators
\* UserStorage.SaveUser: refuses a duplicate email, otherwise stores the
\* user under the next identifier.
SaveUser(us, ctxDone, email, passHash, fail) ==
    IF ctxDone THEN [users |-> us, id |-> 0, err |-> ErrCanceled]
    ELSE IF fail THEN [users |-> us, id |-> 0, err |-> ErrDB]
    ELSE IF \E u \in us : u.Email = email
         THEN [users |-> us, id |-> 0, err |-> ErrUserExists]
    ELSE LET id == Cardinality(us) + 1
         IN  [users |-> us \cup {[ID |-> id, Email |-> email, PassHash |-> passHash]},
              id |-> id, err |-> Nil]

\* UserStorage.GetUser
GetUser(us, ctxDone, email, fail) ==
    IF ctxDone THEN [user |-> NoUser, err |-> ErrCanceled]
    ELSE IF fail THEN [user |-> NoUser, err |-> ErrDB]
    ELSE IF \E u \in us : u.Email = email
         THEN [user |-> CHOOSE u \in us : u.Email = email, err |-> Nil]
    ELSE [user |-> NoUser, err |-> ErrUserNotFound]

\* AppProvider.GetAppInfo
GetAppInfo(as, ctxDone, appID, fail) ==
    IF ctxDone THEN [app |-> NoApp, err |-> ErrCanceled]
    ELSE IF fail THEN [app |-> NoApp, err |-> ErrDB]
    ELSE IF \E a \in as : a.ID = appID
         THEN [app |-> CHOOSE a \in as : a.ID = appID, err |-> Nil]
    ELSE [app |-> NoApp, err |-> ErrAppNotFound]

\* jwt.NewToken(user, app, duration) at clock value t.
NewToken(user, app, duration, t, fail) ==
    IF fail THEN [token |-> EmptyToken, err |-> ErrSigning]
    ELSE [token |-> [uid |-> user.ID, app_id |-> app.ID, iat |-> t, exp |-> t + duration],
          err |-> Nil]

\* ------------------------------------------------------------------- calls
Idle ==
    [op |-> "none", email |-> "", pass |-> "", appID |-> 0, pc |-> "idle",
     ctxDone |-> FALSE, ctxDoneAt |-> 0,
     passHash |-> NoHash, user |-> NoUser, app |-> NoApp,
     id |-> 0, token |-> EmptyToken, err |-> Nil,
     trace |-> << >>, doneBefore |-> {}]

\* History: the external call r has just made, with the error it returned.
Logged(r, name, err) ==
    [r EXCEPT !.trace = Append(@, [call |-> name, err |-> err])]

\* A return from RegisterNewUser.
ReturnID(r, id, err) == [r EXCEPT !.pc = "done", !.id = id, !.err = err]

\* A return from Login.
ReturnToken(r, token, err) == [r EXCEPT !.pc = "done", !.token = token, !.err = err]

\* Faulty variant: the hashing error is not checked.
RegisterAfterHash_IgnoresErr(r, passHash, err) ==
    [r EXCEPT !.passHash = passHash, !.pc = "save"]

\* RegisterNewUser after bcrypt.GenerateFromPassword returned.
RegisterAfterHash(r, passHash, err) ==
    IF err # Nil THEN ReturnID(r, 0, Wrap(opRegister, err))
    ELSE [r EXCEPT !.passHash = passHash, !.pc = "save"]

\* Faulty variant: the SaveUser error is not checked.
RegisterAfterSave_IgnoresErr(r, id, err) == ReturnID(r, id, Nil)

\* Faulty variant: the storage's conflict is taken for success.
RegisterAfterSave_ConflictIsSuccess(r, id, err) ==
    IF err # Nil /\ err # ErrUserExists THEN ReturnID(r, 0, Wrap(opRegister, err))
    ELSE ReturnID(r, id, Nil)

\* RegisterNewUser after SaveUser returned.
RegisterAfterSave(r, id, err) ==
    IF err # Nil THEN ReturnID(r, 0, Wrap(opRegister, err))
    ELSE ReturnID(r, id, Nil)

\* Faulty variant: ErrUserNotFound is not told apart from the other failures.
LoginAfterGetUser_NoSentinel(r, user, err) ==
    IF err # Nil THEN ReturnToken(r, EmptyToken, Wrap(opLogin, err))
    ELSE [r EXCEPT !.user = user, !.pc = "compare"]

\* Faulty variant: every GetUser failure is reported as ErrInvalidCredentials.
LoginAfterGetUser_AlwaysInvalid(r, user, err) ==
    IF err # Nil
    THEN ReturnToken(r, EmptyToken, Wrap(opLogin, ErrInvalidCredentials))
    ELSE [r EXCEPT !.user = user, !.pc = "compare"]

\* Login after GetUser returned.
LoginAfterGetUser(r, user, err) ==
    IF err # Nil
    THEN IF err = ErrUserNotFound
         THEN ReturnToken(r, EmptyToken, Wrap(opLogin, ErrInvalidCredentials))
         ELSE ReturnToken(r, EmptyToken, Wrap(opLogin, err))
    ELSE [r EXCEPT !.user = user, !.pc = "compare"]

\* Faulty variant: the comparison's result is read the wrong way round.
LoginAfterCompare_Inverted(r, err) ==
    IF err = Nil
    THEN ReturnToken(r, EmptyToken, Wrap(opLogin, ErrInvalidCredentials))
    ELSE [r EXCEPT !.pc = "getApp"]

\* Faulty variant: the comparison's result is not checked.
LoginAfterCompare_IgnoresErr(r, err) == [r EXCEPT !.pc = "getApp"]

\* Login after bcrypt.CompareHashAndPassword returned.
LoginAfterCompare(r, err) ==
    IF err # Nil
    THEN ReturnToken(r, EmptyToken, Wrap(opLogin, ErrInvalidCredentials))
    ELSE [r EXCEPT !.pc = "getApp"]

\* Faulty variant: the GetAppInfo error is not checked.
LoginAfterGetApp_IgnoresErr(r, app, err) == [r EXCEPT !.app = app, !.pc = "newToken"]

\* Login after GetAppInfo returned.
LoginAfterGetApp(r, app, err) ==
    IF err # Nil THEN ReturnToken(r, EmptyToken, Wrap(opLogin, err))
    ELSE [r EXCEPT !.app = app, !.pc = "newToken"]

\* Faulty variant: the zero Duration of a field New did not set.
LoginTokenTTL_Zero == tokenTTL - tokenTTL

\* The duration Login hands to jwt.NewToken.
LoginTokenTTL == tokenTTL

\* Login after jwt.NewToken returned.
LoginAfterNewToken(r, token, err) ==
    IF err # Nil THEN ReturnToken(r, EmptyToken, Wrap(opLogin, err))
    ELSE ReturnToken(r, token, Nil)

\* ------------------------------------------------------------------ actions
Done(c) == calls[c].pc = "done"
InFlight(c) == calls[c].pc \notin {"idle", "done"}
DoneCalls == {d \in Calls : Done(d)}

\* The failures a collaborator reports when it is broken, not when it is
\* asked for something that is not there.
IsFault(e) == e \in {ErrDB, ErrHashing, ErrSigning}
Faulted(r) == \E i \in 1..Len(r.trace) : IsFault(r.trace[i].err)
Failing == IF Cardinality({d \in Calls : Faulted(calls[d])}) < MaxFaults
           THEN BOOLEAN ELSE {FALSE}

\* The clock: time passes with every step, so no two steps read the same
\* time.
Tick == now' = now + 1

\* auth.New(log, userStorage, appProvider, tokenTTL)
Init ==
    /\ users = {}
    /\ apps = {[ID |-> i, Secret |-> "secret"] : i \in KnownApps}
    /\ ttlGiven \in 1..MaxTTL
    /\ tokenTTL = ttlGiven
    /\ now = 0
    /\ calls = [c \in Calls |-> Idle]
    /\ writes = {}

\* Calls are numbered in the order they are invoked.
CanInvoke(c) ==
    /\ calls[c].pc = "idle"
    /\ \A d \in Calls : d < c => calls[d].pc # "idle"
    /\ Cardinality({d \in Calls : InFlight(d)}) < MaxInFlight

InvokeRegister(c) ==
    /\ CanInvoke(c)
    /\ \E email \in Emails, pass \in Passwords :
         calls' = [calls EXCEPT ![c] =
                     [Idle EXCEPT !.op = "RegisterNewUser", !.email = email,
                                  !.pass = pass, !.pc = "hash",
                                  !.doneBefore = DoneCalls]]
    /\ Tick
    /\ UNCHANGED <<users, apps, tokenTTL, ttlGiven, writes>>

InvokeLogin(c) ==
    /\ CanInvoke(c)
    /\ \E email \in Emails, pass \in Passwords, appID \in AppIDs :
         calls' = [calls EXCEPT ![c] =
                     [Idle EXCEPT !.op = "Login", !.email = email,
                                  !.pass = pass, !.appID = appID,
                                  !.pc = "getUser",
                                  !.doneBefore = DoneCalls]]
    /\ Tick
    /\ UNCHANGED <<users, apps, tokenTTL, ttlGiven, writes>>

\* The caller cancels the context of a call in flight.
Cancel(c) ==
    /\ InFlight(c)
    /\ ~calls[c].ctxDone
    /\ Cardinality({d \in Calls : calls[d].ctxDone}) < MaxCancels
    /\ calls' = [calls EXCEPT ![c].ctxDone = TRUE,
                              ![c].ctxDoneAt = Len(calls[c].trace)]
    /\ Tick
    /\ UNCHANGED <<users, apps, tokenTTL, ttlGiven, writes>>

RegisterHash(c) ==
    /\ calls[c].pc = "hash"
    /\ \E fail \in Failing :
         LET g == GenerateFromPassword(calls[c].pass, c, fail)
         IN  calls' = [calls EXCEPT ![c] =
                 RegisterAfterHash(Logged(calls[c], "GenerateFromPassword", g.err),
                                   g.hash, g.err)]
    /\ Tick
    /\ UNCHANGED <<users, apps, tokenTTL, ttlGiven, writes>>

RegisterSave(c) ==
    /\ calls[c].pc = "save"
    /\ \E fail \in Failing :
         LET s == SaveUser(users, calls[c].ctxDone, calls[c].email,
                           calls[c].passHash, fail)
         IN  /\ users' = s.users
             /\ writes' = IF s.users # users
                          THEN writes \cup {[call |-> c, ID |-> s.id]}
                          ELSE writes
             /\ calls' = [calls EXCEPT ![c] =
                     RegisterAfterSave(Logged(calls[c], "SaveUser", s.err),
                                       s.id, s.err)]
    /\ Tick
    /\ UNCHANGED <<apps, tokenTTL, ttlGiven>>

LoginGetUser(c) ==
    /\ calls[c].pc = "getUser"
    /\ \E fail \in Failing :
         LET g == GetUser(users, calls[c].ctxDone, calls[c].email, fail)
         IN  calls' = [calls EXCEPT ![c] =
                 LoginAfterGetUser(Logged(calls[c], "GetUser", g.err), g.user, g.err)]
    /\ Tick
    /\ UNCHANGED <<users, apps, tokenTTL, ttlGiven, writes>>

LoginCompare(c) ==
    /\ calls[c].pc = "compare"
    /\ LET e == CompareHashAndPassword(calls[c].user.PassHash, calls[c].pass)
       IN  calls' = [calls EXCEPT ![c] =
               LoginAfterCompare(Logged(calls[c], "CompareHashAndPassword", e), e)]
    /\ Tick
    /\ UNCHANGED <<users, apps, tokenTTL, ttlGiven, writes>>

LoginGetApp(c) ==
    /\ calls[c].pc = "getApp"
    /\ \E fail \in Failing :
         LET g == GetAppInfo(apps, calls[c].ctxDone, calls[c].appID, fail)
         IN  calls' = [calls EXCEPT ![c] =
                 LoginAfterGetApp(Logged(calls[c], "GetAppInfo", g.err), g.app, g.err)]
    /\ Tick
    /\ UNCHANGED <<users, apps, tokenTTL, ttlGiven, writes>>

LoginNewToken(c) ==
    /\ calls[c].pc = "newToken"
    /\ \E fail \in Failing :
         LET t == NewToken(calls[c].user, calls[c].app, LoginTokenTTL, now, fail)
         IN  calls' = [calls EXCEPT ![c] =
                 LoginAfterNewToken(Logged(calls[c], "NewToken", t.err), t.token, t.err)]
    /\ Tick
    /\ UNCHANGED <<users, apps, tokenTTL, ttlGiven, writes>>

Next ==
    \/ \E c \in Calls : InvokeRegister(c)
    \/ \E c \in Calls : InvokeLogin(c)
    \/ \E c \in Calls : Cancel(c)
    \/ \E c \in Calls : RegisterHash(c)
    \/ \E c \in Calls : RegisterSave(c)
    \/ \E c \in Calls : LoginGetUser(c)
    \/ \E c \in Calls : LoginCompare(c)
    \/ \E c \in Calls : LoginGetApp(c)
    \/ \E c \in Calls : LoginNewToken(c)

Spec == Init /\ [][Next]_vars

\* ------------------------------------------------------- reading a history
\* What a caller finds with errors.Is(err, target): some error of the wrap
\* chain of err is target.
Is(err, target) ==
    /\ target # Nil
    /\ \E i \in 1..Len(err) : SubSeq(err, i, Len(err)) = target

IsRegister(c) == calls[c].op = "RegisterNewUser"
IsLogin(c)    == calls[c].op = "Login"
Trace(c)      == calls[c].trace
Succeeded(c)  == Done(c) /\ calls[c].err = Nil
Result(c)     == <<calls[c].id, calls[c].token, calls[c].err>>

\* The external calls c made under the name given.
Made(c, name) == {i \in 1..Len(Trace(c)) : Trace(c)[i].call = name}

\* No collaborator of c was broken and none saw a cancelled context.
Undisturbed(c) ==
    /\ ~Faulted(calls[c])
    /\ \A i \in 1..Len(Trace(c)) : Trace(c)[i].err # ErrCanceled

AppKnown(c) == \E a \in apps : a.ID = calls[c].appID

InvalidCredentialsResult == <<0, EmptyToken, Wrap(opLogin, ErrInvalidCredentials)>>

\* Register r returned success with these credentials before l was invoked.
RegisteredBefore(r, l) ==
    /\ r \in calls[l].doneBefore
    /\ IsRegister(r)
    /\ calls[r].err = Nil
    /\ calls[r].email = calls[l].email

\* ----------------------------------------------------------------- C1
LoginOfRegistered(l, r) ==
    /\ IsLogin(l) /\ Done(l)
    /\ RegisteredBefore(r, l)
    /\ calls[r].pass = calls[l].pass
    /\ AppKnown(l)
    /\ Undisturbed(l)

\* C1: a Login invoked after a successful RegisterNewUser, with the same
\* email and password, a known appID and no collaborator failure, succeeds,
\* and its token carries the identifier RegisterNewUser returned.
C1_RegisterThenLogin ==
    \A l \in Calls, r \in Calls :
        LoginOfRegistered(l, r) =>
            /\ calls[l].err = Nil
            /\ calls[l].token # EmptyToken
            /\ calls[l].token.uid = calls[r].id
            /\ calls[l].token.app_id = calls[l].appID

C1_Witness == \E l \in Calls, r \in Calls : LoginOfRegistered(l, r)

\* ----------------------------------------------------------------- C2
\* The user storage did not know the email.
UnknownEmailCase(c) ==
    /\ IsLogin(c) /\ Done(c)
    /\ Len(Trace(c)) >= 1
    /\ Trace(c)[1].call = "GetUser" /\ Trace(c)[1].err = ErrUserNotFound

\* The email is registered and the password is not the registered one.
WrongPasswordCase(c) ==
    /\ IsLogin(c) /\ Done(c)
    /\ Len(Trace(c)) >= 2
    /\ Trace(c)[1].err = Nil
    /\ Trace(c)[2].call = "CompareHashAndPassword" /\ Trace(c)[2].err # Nil

\* C2: Login with an unknown email and Login with a wrong password return
\* the same result, the empty token and ErrInvalidCredentials wrapped with
\* the operation name, so the result does not tell the two cases apart.
C2_SameInvalidCredentials ==
    /\ \A c \in Calls :
          (UnknownEmailCase(c) \/ WrongPasswordCase(c)) =>
              /\ Result(c) = InvalidCredentialsResult
              /\ Is(calls[c].err, ErrInvalidCredentials)
    /\ \A c \in Calls, d \in Calls :
          (UnknownEmailCase(c) /\ WrongPasswordCase(d)) => Result(c) = Result(d)

C2_Witness ==
    \E c \in Calls, d \in Calls : UnknownEmailCase(c) /\ WrongPasswordCase(d)

\* ----------------------------------------------------------------- C3
SecondRegister(r2, r1) ==
    /\ IsRegister(r2) /\ Done(r2)
    /\ RegisteredBefore(r1, r2)
    /\ Undisturbed(r2)

LoginAfterSecondRegister(l, r2, r1) ==
    /\ IsLogin(l) /\ Done(l)
    /\ SecondRegister(r2, r1)
    /\ r2 \in calls[l].doneBefore
    /\ calls[l].email = calls[r1].email
    /\ AppKnown(l)
    /\ Undisturbed(l)

\* C3: a RegisterNewUser for an email that an earlier RegisterNewUser has
\* registered returns identifier 0 and the storage's ErrUserExists, wrapped
\* and not translated; the first user's record stays as it was stored, a
\* later Login with the first password succeeds for the first identifier
\* and a later Login with another password returns ErrInvalidCredentials.
C3_SecondRegisterConflicts ==
    /\ \A r2 \in Calls, r1 \in Calls :
          SecondRegister(r2, r1) =>
              /\ calls[r2].id = 0
              /\ calls[r2].err = Wrap(opRegister, ErrUserExists)
              /\ Is(calls[r2].err, ErrUserExists)
    /\ \A r1 \in Calls :
          (IsRegister(r1) /\ Succeeded(r1)) =>
              [ID |-> calls[r1].id, Email |-> calls[r1].email,
               PassHash |-> calls[r1].passHash] \in users
    /\ \A l \in Calls, r2 \in Calls, r1 \in Calls :
          LoginAfterSecondRegister(l, r2, r1) =>
              IF calls[l].pass = calls[r1].pass
              THEN calls[l].err = Nil /\ calls[l].token.uid = calls[r1].id
              ELSE Result(l) = InvalidCredentialsResult

C3_Witness ==
    \E l \in Calls, r2 \in Calls, r1 \in Calls :
        /\ LoginAfterSecondRegister(l, r2, r1)
        /\ calls[r2].pass # calls[r1].pass
        /\ calls[l].pass = calls[r2].pass

\* ----------------------------------------------------------------- C4
UnknownAppCase(c) ==
    /\ IsLogin(c) /\ Done(c)
    /\ ~AppKnown(c)
    /\ Made(c, "GetAppInfo") # {}
    /\ Undisturbed(c)

\* C4: a Login whose credentials were accepted and whose appID the app
\* provider does not know returns the empty token and the provider's
\* ErrAppNotFound wrapped with the operation name, and jwt.NewToken is not
\* called.
C4_UnknownAppNoToken ==
    \A c \in Calls :
        UnknownAppCase(c) =>
            /\ calls[c].token = EmptyToken
            /\ calls[c].err = Wrap(opLogin, ErrAppNotFound)
            /\ Is(calls[c].err, ErrAppNotFound)
            /\ ~Is(calls[c].err, ErrInvalidCredentials)
            /\ Made(c, "NewToken") = {}

C4_Witness == \E c \in Calls : UnknownAppCase(c)

\* ----------------------------------------------------------------- C5
\* C5: a call whose context was cancelled while it ran starts no external
\* call beyond the one pending at that moment and returns a failure that
\* is context.Canceled, never ErrInvalidCredentials, a storage error or a
\* success.
C5_CancelledCallReportsCancellation ==
    \A c \in Calls :
        (Done(c) /\ calls[c].ctxDone) =>
            /\ Len(Trace(c)) <= calls[c].ctxDoneAt + 1
            /\ Is(calls[c].err, ErrCanceled)
            /\ ~Is(calls[c].err, ErrInvalidCredentials)

\* ----------------------------------------------------------------- C6
\* The user storage answered c's SaveUser: it accepted or it reported the
\* conflict.
SaveAnswered(c) ==
    /\ IsRegister(c) /\ Done(c)
    /\ \E i \in Made(c, "SaveUser") : Trace(c)[i].err \in {Nil, ErrUserExists}

Accepted(c) == \E w \in writes : w.call = c

\* C6: of the RegisterNewUser calls for one email, however they interleave,
\* at most one returns success; a call returns success exactly when the
\* storage accepted its SaveUser, with the identifier the storage assigned,
\* and every other call the storage answered returns ErrUserExists.
C6_AtMostOneRegisterWins ==
    /\ \A c \in Calls, d \in Calls :
          (c # d /\ IsRegister(c) /\ IsRegister(d) /\ Succeeded(c) /\ Succeeded(d))
              => calls[c].email # calls[d].email
    /\ \A c \in Calls :
          (IsRegister(c) /\ Done(c)) =>
              /\ Succeeded(c) <=> Accepted(c)
              /\ Succeeded(c) => [call |-> c, ID |-> calls[c].id] \in writes
    /\ \A c \in Calls :
          (SaveAnswered(c) /\ ~Accepted(c)) =>
              /\ calls[c].id = 0
              /\ calls[c].err = Wrap(opRegister, ErrUserExists)

\* Two overlapping calls for the same email, one accepted, one refused.
C6_Witness ==
    \E c \in Calls, d \in Calls :
        /\ c # d
        /\ SaveAnswered(c) /\ SaveAnswered(d)
        /\ calls[c].email = calls[d].email
        /\ c \notin calls[d].doneBefore /\ d \notin calls[c].doneBefore
        /\ Succeeded(c) /\ ~Succeeded(d)
        /\ d < c

\* ----------------------------------------------------------------- C7
\* C7: every token Login returns expires exactly tokenTTL after it was
\* issued, and tokenTTL is the value given at construction in every state.
C7_ExpiryIsIssuePlusTTL ==
    /\ tokenTTL = ttlGiven
    /\ \A c \in Calls :
          (IsLogin(c) /\ Succeeded(c)) =>
              /\ calls[c].token # EmptyToken
              /\ calls[c].token.exp = calls[c].token.iat + ttlGiven

\* Two tokens issued at different times.
C7_Witness ==
    \E c \in Calls, d \in Calls :
        /\ IsLogin(c) /\ Succeeded(c)
        /\ IsLogin(d) /\ Succeeded(d)
        /\ calls[c].token.iat # calls[d].token.iat

\* ----------------------------------------------------------------- C8
GetUserFailedOtherwise(c) ==
    /\ IsLogin(c) /\ Done(c)
    /\ Len(Trace(c)) >= 1
    /\ Trace(c)[1].call = "GetUser"
    /\ Trace(c)[1].err \notin {Nil, ErrUserNotFound}

\* C8: when GetUser fails with anything but ErrUserNotFound, Login returns
\* that error wrapped with the operation name, which is not
\* ErrInvalidCredentials; Login returns ErrInvalidCredentials only after
\* ErrUserNotFound or a password mismatch.
C8_StorageFailureIsNotInvalidCredentials ==
    \A c \in Calls :
        /\ GetUserFailedOtherwise(c) =>
              /\ calls[c].token = EmptyToken
              /\ calls[c].err = Wrap(opLogin, Trace(c)[1].err)
              /\ Is(calls[c].err, Trace(c)[1].err)
              /\ ~Is(calls[c].err, ErrInvalidCredentials)
        /\ (IsLogin(c) /\ Done(c) /\ Is(calls[c].err, ErrInvalidCredentials)) =>
              (UnknownEmailCase(c) \/ WrongPasswordCase(c))

C8_Witness ==
    \E c \in Calls, d \in Calls :
        /\ GetUserFailedOtherwise(c) /\ Trace(c)[1].err = ErrDB
        /\ UnknownEmailCase(d)

\* ----------------------------------------------------------------- C9
LoginOrder == <<"GetUser", "CompareHashAndPassword", "GetAppInfo", "NewToken">>

\* C9: the external calls of a Login are a prefix of GetUser, password
\* comparison, GetAppInfo, token issue, each made once, and a call is made
\* only when every call before it returned no error.
C9_LoginStepsInOrder ==
    \A c \in Calls :
        IsLogin(c) =>
            /\ Len(Trace(c)) <= Len(LoginOrder)
            /\ \A i \in 1..Len(Trace(c)) :
                  /\ Trace(c)[i].call = LoginOrder[i]
                  /\ i > 1 => Trace(c)[i - 1].err = Nil

\* One Login that ran all four calls and one that stopped at the comparison.
C9_Witness ==
    \E c \in Calls, d \in Calls :
        /\ IsLogin(c) /\ Done(c) /\ Len(Trace(c)) = Len(LoginOrder)
        /\ WrongPasswordCase(d) /\ Len(Trace(d)) = 2

\* ---------------------------------------------------------------- C10
WritesOf(c) == {w \in writes : w.call = c}

\* C10: the stored users are exactly those the SaveUser of a
\* RegisterNewUser created and the app provider's records are those it
\* started with, so Login changes neither; a RegisterNewUser calls SaveUser
\* at most once and never jwt.NewToken, one that returned an error has
\* stored no user, and one whose hashing failed has not called SaveUser.
C10_SideEffects ==
    /\ apps = {[ID |-> i, Secret |-> "secret"] : i \in KnownApps}
    /\ {u.ID : u \in users} = {w.ID : w \in writes}
    /\ Cardinality(users) = Cardinality(writes)
    /\ \A c \in Calls :
          IsLogin(c) => WritesOf(c) = {} /\ Made(c, "SaveUser") = {}
    /\ \A c \in Calls :
          IsRegister(c) =>
              /\ Cardinality(Made(c, "SaveUser")) <= 1
              /\ Cardinality(WritesOf(c)) <= 1
              /\ Made(c, "NewToken") = {}
              /\ calls[c].token = EmptyToken
              /\ (Done(c) /\ calls[c].err # Nil) => WritesOf(c) = {}
              /\ (\E i \in Made(c, "GenerateFromPassword") : Trace(c)[i].err # Nil)
                    => Made(c, "SaveUser") = {}

\* A Login that ran to its end, a RegisterNewUser that stored a user, one
\* refused by the storage and one whose hashing failed.
C10_Witness ==
    /\ \E c \in Calls : IsLogin(c) /\ Succeeded(c)
    /\ \E c \in Calls : IsRegister(c) /\ Succeeded(c) /\ WritesOf(c) # {}
    /\ \E c \in Calls :
          /\ IsRegister(c) /\ Done(c)
          /\ \E i \in Made(c, "GenerateFromPassword") : Trace(c)[i].err # Nil

====
